---------------------------- MODULE Spec2Model ----------------------------
(***************************************************************************)
(* A model of the twitter downloader bot (src/main.py): the extraction of  *)
(* tweet identifiers from a text, the /grab command handler, the inline    *)
(* query handler and the shared statistics counters kept in bot_data.      *)
(*                                                                         *)
(* Specifications, over one set of variables:                              *)
(*   SpecExtract  extract_tweet_ids applied to bounded texts;              *)
(*   Spec         one update handled by grab_command, inline_query,        *)
(*                stats_command or reset_stats_command, one step per       *)
(*                network call or transport call;                          *)
(*   SpecOne      Spec on updates whose text is a single link;             *)
(*   SpecInline   the inline query alone, on tweets of few media;          *)
(*   SpecConc     several handler coroutines interleaved at their await    *)
(*                points, sharing the counters.                            *)
(*                                                                         *)
(* Abstractions.  A text is a sequence of tokens: a tweet link (the length *)
(* of its user segment and its numeric id), a t.co link, or another word.  *)
(* Links are taken to be written with their scheme and separated so that   *)
(* the `.{1,15}` of the id pattern cannot span two links.  A media URL is  *)
(* the pair (tweet id, position in media_extended) plus the requested      *)
(* quality.  The network and the Telegram transport are nondeterministic:  *)
(* every outcome the called library can produce is a choice of the action. *)
(***************************************************************************)
EXTENDS Integers, Sequences, FiniteSets, TLC

VARIABLES
    \* ---- SpecExtract
    text,          \* the text handed to extract_tweet_ids
    redirects,     \* outcome of requests.get for each t.co link, in order
    extracted,     \* the value extract_tweet_ids returned
    ex_pc,         \* "input" | "returned"
    \* ---- Spec: the update being handled
    pc,            \* position of the handler
    mode,          \* "none" | "grab" | "inline" | "stats" | "reset"
    tweet_ids,     \* Optional[list[str]] returned by extract_tweet_ids
    id_ix,         \* index of the current tweet_id of the for loop
    tweet_media,   \* media_extended of the current tweet
    asset_ix,      \* index of the current asset within its bucket
    group,         \* photo_group / gif_group / video_group being built
    results,       \* inline_query's results
    sent,          \* calls made on the Telegram transport, in order
    bot_data,      \* context.bot_data (shared by all handlers)
    raised,        \* exception that escaped the handler, or "none"
    errlog,        \* exceptions raised so far, with the function raising
    fetched,       \* tweet ids handed to scrape_media, in order
    yields,        \* per fetched tweet, what get_media_for_inline returned
    probed,        \* outcome of the size probe of each video handled
    start_stats,   \* the counters when the update arrived
    \* ---- SpecConc
    hpc,           \* per coroutine: its position
    todo,          \* per coroutine: assets still to send
    incs           \* increase_context_counter calls since the last reset

exVars   == <<text, redirects, extracted, ex_pc>>
updVars  == <<pc, mode, tweet_ids, id_ix, tweet_media, asset_ix, group,
              results, sent, raised, errlog, fetched, yields, probed,
              start_stats>>
concVars == <<hpc, todo, incs>>
vars     == <<exVars, updVars, bot_data, concVars>>

---------------------------------------------------------------------------
(* Bounds of the model *)

MaxId == 2           \* tweet ids are 1..MaxId
MaxTextLen == 3      \* tokens in a text
MaxMedia == 2        \* entries of media_extended per tweet
MaxInlineMedia == 1  \* entries of media_extended per tweet (SpecInline)
MaxStart == 1        \* value of each counter when the update arrives
NumHandlers == 2     \* concurrent coroutines (SpecConc)
MaxAssets == 2       \* assets per coroutine (SpecConc)

(* Constants of the program *)

MaxUserLen == 15                        \* `.{1,15}` of the id pattern
MaxVideoSize == 20 * 1024 * 1024        \* the Telegram upload limit

---------------------------------------------------------------------------
(* Texts *)

Ids == 1..MaxId
UserLens == {MaxUserLen, MaxUserLen + 1}

TweetLink(u, n) == [k |-> "tweet", user |-> u, id |-> n]
TcoLink == [k |-> "tco", user |-> 0, id |-> 0]
Word == [k |-> "word", user |-> 0, id |-> 0]

TweetLinks == {TweetLink(u, n) : u \in UserLens, n \in Ids}
Tokens == TweetLinks \cup {TcoLink, Word}
Texts == UNION {[1..n -> Tokens] : n \in 0..MaxTextLen}

\* What requests.get('https://' + link).url can do: raise, or give the
\* final URL of the redirect chain.
Unresolved == [ok |-> FALSE, url |-> Word]
Resolved(u) == [ok |-> TRUE, url |-> u]
RedirectOutcomes == {Unresolved} \cup {Resolved(u) : u \in TweetLinks \cup {Word}}

Some(s) == [none |-> FALSE, ids |-> s]
None == [none |-> TRUE, ids |-> <<>>]

\* re.findall(r"t\.co/[a-zA-Z0-9]+", text)
FindTco(t) == SelectSeq(t, LAMBDA tok : tok.k = "tco")

\* One match of (?:twitter|x)\.com/.{1,15}/(?:web|status(?:es)?)/([0-9]{1,20})
MatchesIdPattern(tok) ==
    tok.k = "tweet" /\ tok.user >= 1 /\ tok.user <= MaxUserLen

\* re.match(CORRECT_TWITTER_PATTERN, url): the text starts with a tweet link
\* whose user segment is [a-zA-Z0-9_]+ of any length.
MatchesCorrectPattern(t) ==
    Len(t) >= 1 /\ t[1].k = "tweet" /\ t[1].user >= 1

RECURSIVE FindIds(_)
FindIds(t) ==
    IF t = <<>> THEN <<>>
    ELSE IF MatchesIdPattern(Head(t))
         THEN <<Head(t).id>> \o FindIds(Tail(t))
         ELSE FindIds(Tail(t))

RECURSIVE UnshortenedLinks(_)
\* the loop of lines 39-45: a resolved link is appended, a failed one skipped
UnshortenedLinks(outs) ==
    IF outs = <<>> THEN <<>>
    ELSE IF Head(outs).ok
         THEN <<Head(outs).url>> \o UnshortenedLinks(Tail(outs))
         ELSE UnshortenedLinks(Tail(outs))

InSeq(x, s) == \E p \in 1..Len(s) : s[p] = x

RECURSIVE DedupeKeepLast(_)
DedupeKeepLast(s) ==
    IF s = <<>> THEN <<>>
    ELSE IF InSeq(Head(s), Tail(s))
         THEN DedupeKeepLast(Tail(s))
         ELSE <<Head(s)>> \o DedupeKeepLast(Tail(s))

RECURSIVE Dedupe(_)
\* list(dict.fromkeys(tweet_ids)): first occurrence of each key, in order
Dedupe(s) ==
    IF s = <<>> THEN <<>>
    ELSE <<Head(s)>> \o Dedupe(SelectSeq(Tail(s), LAMBDA x : x # Head(s)))

\* extract_tweet_ids(update, text), with the outcome of each redirect given
extract_tweet_ids(t, outs) ==
    LET unshortened_links == UnshortenedLinks(outs)
        found == Dedupe(FindIds(t \o unshortened_links))
    IN  IF found = <<>> THEN None ELSE Some(found)

---------------------------------------------------------------------------
(* SpecExtract: extract_tweet_ids on every bounded text *)

NoUpdate ==
    /\ pc = "off" /\ mode = "none" /\ tweet_ids = None /\ id_ix = 0
    /\ tweet_media = <<>> /\ asset_ix = 0 /\ group = <<>> /\ results = <<>>
    /\ sent = <<>> /\ raised = "none" /\ errlog = {} /\ fetched = <<>>
    /\ yields = <<>> /\ probed = <<>>
    /\ start_stats = [media_downloaded |-> 0, messages_handled |-> 0,
                      commands_handled |-> 0]

NoStats ==
    bot_data = [has_stats |-> FALSE,
                stats |-> [media_downloaded |-> 0, messages_handled |-> 0,
                           commands_handled |-> 0]]

NoConc ==
    /\ hpc = <<>> /\ todo = <<>>
    /\ incs = [media_downloaded |-> 0, messages_handled |-> 0,
               commands_handled |-> 0]

NoExtract ==
    /\ text = <<>> /\ redirects = <<>> /\ extracted = None /\ ex_pc = "off"

InitExtract ==
    /\ text \in Texts
    /\ redirects = <<>>
    /\ extracted = None
    /\ ex_pc = "input"
    /\ NoUpdate /\ NoStats /\ NoConc

Extract ==
    /\ ex_pc = "input"
    /\ \E outs \in [1..Len(FindTco(text)) -> RedirectOutcomes] :
          /\ redirects' = outs
          /\ extracted' = extract_tweet_ids(text, outs)
    /\ ex_pc' = "returned"
    /\ UNCHANGED <<text, updVars, bot_data, concVars>>

NextExtract == Extract

SpecExtract == InitExtract /\ [][NextExtract]_vars


---------------------------------------------------------------------------
(* Media, delivery decisions and transport calls *)

MediaTypes == {"image", "gif", "video"}

Url(t, n) == [tweet |-> t, n |-> n, name |-> "small"]
NoUrl == [tweet |-> 0, n |-> 0, name |-> "none"]

\* media_extended lists the API can return for tweet t
MediaOfTypes(t, types) ==
    [n \in 1..Len(types) |-> [type |-> types[n], url |-> Url(t, n)]]
MediaListsUpTo(t, max) ==
    {MediaOfTypes(t, types) :
        types \in UNION {[1..n -> MediaTypes] : n \in 0..max}}
MediaLists(t) == MediaListsUpTo(t, MaxMedia)

\* get_media(tweet_media)
Photos(m) == SelectSeq(m, LAMBDA x : x.type = "image")
Gifs(m)   == SelectSeq(m, LAMBDA x : x.type = "gif")
Videos(m) == SelectSeq(m, LAMBDA x : x.type = "video")

\* what scrape_media can raise: raise_for_status, or no 'media_extended'
ScrapeErrors == {"HTTPError", "KeyError"}

Item(kind, url) == [kind |-> kind, url |-> url]

Call(c, what, items, ok) ==
    [call |-> c, what |-> what, items |-> items, ok |-> ok]
ReplyText(what, url) == Call("reply_text", what, <<Item("link", url)>>, TRUE)
ReplyMediaGroup(g, ok) == Call("reply_media_group", "", g, ok)
ReplyAnimation(url, ok) == Call("reply_animation", "", <<Item("gif", url)>>, ok)
ReplyVideo(url, ok) == Call("reply_video", "", <<Item("video", url)>>, ok)
DeleteMessage == Call("delete", "", <<>>, TRUE)
Answer(r) == Call("answer", "", r, TRUE)

\* the article inline_query answers when it has no result
NothingFound == Item("nothing_found", NoUrl)
\* the article get_videos gives for a video over the limit: its text is
\* 'Video too big', it carries no URL
VideoTooBig == Item("video_too_big", NoUrl)

\* what a media send of the transport can do: succeed, or reject the media
SendOutcomes == {"ok", "BadRequest"}

\* what requests.head(new_url).raise_for_status() of get_photo_url can do
PhotoProbes == {"ok", "HTTPError", "ConnectionError"}

\* what the size probe of a video can do: give a declared length, or fail
\* on the request (ConnectionError), the status (HTTPError), the missing
\* header (KeyError) or the header's text (ValueError of int()).  The
\* lengths tried are 5 MiB, the limit, and the limit plus one byte.
Sizes == {MaxVideoSize \div 4, MaxVideoSize, MaxVideoSize + 1}
Probe(ok, exc, size) == [ok |-> ok, exc |-> exc, size |-> size]
VideoProbeErrors == {"HTTPError", "KeyError", "ConnectionError", "ValueError"}
VideoProbes ==
    {Probe(TRUE, "none", s) : s \in Sizes}
        \cup {Probe(FALSE, e, 0) : e \in VideoProbeErrors}

\* the except clause of command_send_videos and get_videos
CaughtByVideos == {"HTTPError", "KeyError", "BadRequest", "ConnectionError"}

FitsTelegramStrict(size) == size < MaxVideoSize

\* the size gate: int(request.headers['Content-Length']) <= 20 * 1024 * 1024
FitsTelegram(size) == size <= MaxVideoSize

\* get_photo_url(update, url) for a probe that did not raise past it
OrigUrl(url) == [url EXCEPT !.name = "orig"]
get_photo_url(url, probe) == IF probe = "ok" THEN OrigUrl(url) ELSE url

---------------------------------------------------------------------------
(* The counters *)

CounterNames == {"media_downloaded", "messages_handled", "commands_handled"}
Zeros == [media_downloaded |-> 0, messages_handled |-> 0, commands_handled |-> 0]

\* init_stats(context)
init_stats(bd) == [has_stats |-> TRUE, stats |-> Zeros]

increase_always_init(bd, name) ==
    [init_stats(bd) EXCEPT !.stats[name] = @ + 1]

\* increase_context_counter(context, counter_name): one synchronous call,
\* no await inside, so no other coroutine runs between its test and its +=
increase_context_counter(bd, name) ==
    LET b == IF ~bd.has_stats THEN init_stats(bd) ELSE bd
    IN  [b EXCEPT !.stats[name] = @ + 1]

RECURSIVE increase_n(_, _, _)
increase_n(bd, name, n) ==
    IF n = 0 THEN bd
    ELSE increase_n(increase_context_counter(bd, name), name, n - 1)

Counters(bd) == IF bd.has_stats THEN bd.stats ELSE Zeros


---------------------------------------------------------------------------
(* Spec: one update, handled step by step *)

StartStats ==
    {[has_stats |-> FALSE, stats |-> Zeros]}
        \cup {[has_stats |-> TRUE,
               stats |-> [media_downloaded |-> c, messages_handled |-> c,
                          commands_handled |-> c]] : c \in 0..MaxStart}

Init ==
    /\ pc = "idle" /\ mode = "none" /\ tweet_ids = None /\ id_ix = 0
    /\ tweet_media = <<>> /\ asset_ix = 0 /\ group = <<>> /\ results = <<>>
    /\ sent = <<>> /\ raised = "none" /\ errlog = {} /\ fetched = <<>>
    /\ yields = <<>> /\ probed = <<>>
    /\ bot_data \in StartStats
    /\ start_stats = Counters(bot_data)
    /\ NoExtract /\ NoConc

Exc(e, fn) == [exc |-> e, fn |-> fn]

\* the handler ends
Finish == pc' = "done"

\* an exception leaves the handler: python-telegram-bot hands it to
\* error_handler and the rest of the handler does not run
Escape(e, fn) ==
    /\ raised' = e
    /\ errlog' = errlog \cup {Exc(e, fn)}
    /\ pc' = "done"

\* the buckets grab_command goes through after `stage`, in its order
GrabStageAfter(stage, m) ==
    IF stage = "fetch" /\ Photos(m) # <<>> THEN "command_send_photos"
    ELSE IF stage \in {"fetch", "photos"} /\ Gifs(m) # <<>>
         THEN "command_send_gifs"
    ELSE IF stage \in {"fetch", "photos", "gifs"} /\ Videos(m) # <<>>
         THEN "command_send_videos"
    ELSE "grab_loop"

\* control moves to the next bucket, or to the next tweet_id
GrabGoto(stage, m) ==
    /\ pc' = GrabStageAfter(stage, m)
    /\ id_ix' = IF GrabStageAfter(stage, m) = "grab_loop"
                THEN id_ix + 1 ELSE id_ix
    /\ asset_ix' = 1
    /\ group' = <<>>

\* grab_command, lines 144-149 and 159-161: the pattern test, the
\* extraction, the 'tweet:' reply and the entry of the for loop
grab_command_on(inbound) ==
    /\ pc = "idle"
    /\ mode' = "grab"
    /\ \E url \in inbound :
        IF MatchesCorrectPattern(url)
        THEN \E outs \in [1..Len(FindTco(url)) -> RedirectOutcomes] :
                LET ids == extract_tweet_ids(url, outs) IN
                /\ tweet_ids' = ids
                /\ IF ids.none
                   THEN \* `for tweet_id in None`
                        /\ Escape("TypeError", "grab_command")
                        /\ UNCHANGED <<sent, id_ix>>
                   ELSE /\ sent' = Append(sent, ReplyText("tweet", NoUrl))
                        /\ id_ix' = 1
                        /\ pc' = "grab_loop"
                        /\ UNCHANGED <<raised, errlog>>
                /\ UNCHANGED bot_data
        ELSE /\ sent' = Append(sent, ReplyText("invalid", NoUrl))
             /\ bot_data' = increase_context_counter(bot_data, "commands_handled")
             /\ Finish
             /\ UNCHANGED <<tweet_ids, id_ix, raised, errlog>>
    /\ UNCHANGED <<tweet_media, asset_ix, group, results, fetched, yields,
                   probed, start_stats, exVars, concVars>>

\* grab_command, lines 149-151: scrape_media and get_media for one tweet_id
grab_scrape_media ==
    /\ pc = "grab_loop"
    /\ id_ix <= Len(tweet_ids.ids)
    /\ fetched' = Append(fetched, tweet_ids.ids[id_ix])
    /\ \/ \E e \in ScrapeErrors :
            /\ Escape(e, "scrape_media")
            /\ UNCHANGED <<tweet_media, id_ix, asset_ix, group>>
       \/ \E m \in MediaLists(tweet_ids.ids[id_ix]) :
            /\ tweet_media' = m
            /\ GrabGoto("fetch", m)
            /\ UNCHANGED <<raised, errlog>>
    /\ UNCHANGED <<mode, tweet_ids, results, sent, bot_data, yields, probed,
                   start_stats, exVars, concVars>>

\* grab_command, lines 158 and 161: after the loop
grab_finish ==
    /\ pc = "grab_loop"
    /\ id_ix > Len(tweet_ids.ids)
    /\ sent' = Append(sent, DeleteMessage)
    /\ bot_data' = increase_context_counter(bot_data, "commands_handled")
    /\ Finish
    /\ UNCHANGED <<mode, tweet_ids, id_ix, tweet_media, asset_ix, group,
                   results, raised, errlog, fetched, yields, probed,
                   start_stats, exVars, concVars>>

\* command_send_photos, lines 199-202: one photo of the loop
command_send_photos ==
    /\ pc = "command_send_photos"
    /\ LET p == Photos(tweet_media)[asset_ix] IN
       \E probe \in PhotoProbes :
          IF probe = "ConnectionError"
          THEN \* not an HTTPError: it leaves get_photo_url and the handler
               /\ Escape(probe, "get_photo_url")
               /\ UNCHANGED <<group, bot_data, asset_ix>>
          ELSE /\ group' = Append(group,
                                  Item("document", get_photo_url(p.url, probe)))
               /\ bot_data' = increase_context_counter(bot_data, "media_downloaded")
               /\ errlog' = IF probe = "ok" THEN errlog
                            ELSE errlog \cup {Exc(probe, "caught:get_photo_url")}
               /\ asset_ix' = asset_ix + 1
               /\ pc' = IF asset_ix = Len(Photos(tweet_media))
                        THEN "reply_media_group" ELSE pc
               /\ UNCHANGED raised
    /\ UNCHANGED <<mode, tweet_ids, id_ix, tweet_media, results, sent,
                   fetched, yields, probed, start_stats, exVars, concVars>>

\* command_send_photos, line 203: the grouped send
reply_media_group ==
    /\ pc = "reply_media_group"
    /\ \E t \in SendOutcomes :
          /\ sent' = Append(sent, ReplyMediaGroup(group, t = "ok"))
          /\ IF t = "ok"
             THEN GrabGoto("photos", tweet_media) /\ UNCHANGED <<raised, errlog>>
             ELSE Escape(t, "command_send_photos")
                    /\ UNCHANGED <<id_ix, asset_ix, group>>
    /\ UNCHANGED <<mode, tweet_ids, tweet_media, results, bot_data, fetched,
                   yields, probed, start_stats, exVars, concVars>>

\* command_send_gifs, lines 190-194: one gif of the loop
command_send_gifs ==
    /\ pc = "command_send_gifs"
    /\ LET g == Gifs(tweet_media)[asset_ix] IN
       \E t \in SendOutcomes :
          /\ bot_data' = increase_context_counter(bot_data, "media_downloaded")
          /\ sent' = Append(sent, ReplyAnimation(g.url, t = "ok"))
          /\ IF t # "ok"
             THEN Escape(t, "command_send_gifs")
                    /\ UNCHANGED <<id_ix, asset_ix, group>>
             ELSE /\ UNCHANGED <<raised, errlog>>
                  /\ IF asset_ix = Len(Gifs(tweet_media))
                     THEN GrabGoto("gifs", tweet_media)
                     ELSE /\ asset_ix' = asset_ix + 1
                          /\ UNCHANGED <<pc, id_ix, group>>
    /\ UNCHANGED <<mode, tweet_ids, tweet_media, results, fetched, yields,
                   probed, start_stats, exVars, concVars>>

\* command_send_videos, lines 170-186: one video of the loop
command_send_videos ==
    /\ pc = "command_send_videos"
    /\ LET v == Videos(tweet_media)[asset_ix]
           link == ReplyText("error_link", v.url)
           next == /\ bot_data' = increase_context_counter(bot_data, "media_downloaded")
                   /\ IF asset_ix = Len(Videos(tweet_media))
                      THEN GrabGoto("videos", tweet_media)
                      ELSE /\ asset_ix' = asset_ix + 1
                           /\ UNCHANGED <<pc, id_ix, group>>
                   /\ UNCHANGED raised
       IN
       \E probe \in VideoProbes :
          /\ probed' = Append(probed, [url |-> v.url, probe |-> probe])
          /\ IF probe.ok
             THEN IF FitsTelegram(probe.size)
                  THEN \E t \in SendOutcomes :
                         /\ sent' = IF t = "ok"
                                    THEN Append(sent, ReplyVideo(v.url, TRUE))
                                    ELSE sent \o <<ReplyVideo(v.url, FALSE), link>>
                         /\ errlog' = IF t = "ok" THEN errlog
                                      ELSE errlog \cup {Exc(t, "caught:command_send_videos")}
                         /\ next
                  ELSE /\ sent' = Append(sent, ReplyText("too_large", v.url))
                       /\ UNCHANGED errlog
                       /\ next
             ELSE IF probe.exc \in CaughtByVideos
                  THEN /\ sent' = Append(sent, link)
                       /\ errlog' = errlog \cup {Exc(probe.exc, "caught:command_send_videos")}
                       /\ next
                  ELSE /\ Escape(probe.exc, "command_send_videos")
                       /\ UNCHANGED <<sent, bot_data, id_ix, asset_ix, group>>
    /\ UNCHANGED <<mode, tweet_ids, tweet_media, results, fetched, yields,
                   start_stats, exVars, concVars>>


\* inline_query's `except Exception` (lines 332-333): the error is logged,
\* results keeps its value and the loop goes to the next tweet_id
InlineCaught(es) ==
    /\ errlog' = errlog \cup es
    /\ yields' = Append(yields, [id |-> tweet_ids.ids[id_ix], raised |-> TRUE,
                                 res |-> <<>>, count |-> 0])
    /\ id_ix' = id_ix + 1
    /\ pc' = "inline_loop"
    /\ UNCHANGED <<results, raised>>

\* (a variant that keeps the results of the first tweet that gave any)
InlineReturnKeepFirst(r) ==
    /\ results' = IF results = <<>> THEN r ELSE results
    /\ yields' = Append(yields, [id |-> tweet_ids.ids[id_ix], raised |-> FALSE,
                                 res |-> r,
                                 count |-> Counters(bot_data').media_downloaded])
    /\ id_ix' = id_ix + 1
    /\ pc' = "inline_loop"
    /\ UNCHANGED <<errlog, raised>>

\* get_media_for_inline returned r: `results = ...` (line 329); yields
\* notes r and the media counter at that moment
InlineReturn(r) ==
    /\ results' = r
    /\ yields' = Append(yields, [id |-> tweet_ids.ids[id_ix], raised |-> FALSE,
                                 res |-> r,
                                 count |-> Counters(bot_data').media_downloaded])
    /\ id_ix' = id_ix + 1
    /\ pc' = "inline_loop"
    /\ UNCHANGED <<errlog, raised>>

\* get_gifs(update, context, gifs): no call that can fail
get_gifs(gifs) == [n \in 1..Len(gifs) |-> Item("gif", gifs[n].url)]

\* inline_query, lines 317-324.  InlineQueryHandler passes only a query
\* that matches CORRECT_TWITTER_PATTERN, so `if not query` is never taken.
inline_query_on(inbound) ==
    /\ pc = "idle"
    /\ mode' = "inline"
    /\ \E query \in {t \in inbound : MatchesCorrectPattern(t)} :
       \E outs \in [1..Len(FindTco(query)) -> RedirectOutcomes] :
          LET ids == extract_tweet_ids(query, outs) IN
          /\ tweet_ids' = ids
          /\ IF ids.none
             THEN \* `for tweet_id in None`
                  Escape("TypeError", "inline_query") /\ UNCHANGED id_ix
             ELSE /\ id_ix' = 1
                  /\ pc' = "inline_loop"
                  /\ UNCHANGED <<raised, errlog>>
    /\ UNCHANGED <<tweet_media, asset_ix, group, results, sent, bot_data,
                   fetched, yields, probed, start_stats, exVars, concVars>>

\* inline_query, lines 325-333, and get_media_for_inline up to its first
\* network call: scrape_media for one tweet_id, then the first non-empty
\* bucket; get_gifs runs to its end here
inline_scrape_media_upto(max) ==
    /\ pc = "inline_loop"
    /\ id_ix <= Len(tweet_ids.ids)
    /\ fetched' = Append(fetched, tweet_ids.ids[id_ix])
    /\ \/ \E e \in ScrapeErrors :
            /\ InlineCaught({Exc(e, "scrape_media")})
            /\ UNCHANGED <<tweet_media, asset_ix, group, bot_data>>
       \/ \E m \in MediaListsUpTo(tweet_ids.ids[id_ix], max) :
            /\ tweet_media' = m
            /\ IF m = <<>>
               THEN \* 'Tweet has no media'
                    /\ id_ix' = id_ix + 1
                    /\ UNCHANGED <<pc, results, yields, errlog, raised,
                                   asset_ix, group, bot_data>>
               ELSE IF Photos(m) # <<>>
               THEN /\ pc' = "get_photos"
                    /\ asset_ix' = 1
                    /\ group' = <<>>
                    /\ UNCHANGED <<id_ix, results, yields, errlog, raised,
                                   bot_data>>
               ELSE IF Gifs(m) # <<>>
               THEN /\ bot_data' = increase_n(bot_data, "media_downloaded",
                                              Len(Gifs(m)))
                    /\ InlineReturn(get_gifs(Gifs(m)))
                    /\ UNCHANGED <<asset_ix, group>>
               ELSE /\ pc' = "get_videos"
                    /\ asset_ix' = 1
                    /\ group' = <<>>
                    /\ UNCHANGED <<id_ix, results, yields, errlog, raised,
                                   bot_data>>
    /\ UNCHANGED <<mode, tweet_ids, sent, probed, start_stats, exVars,
                   concVars>>

\* get_photos, lines 81-91: one photo of the loop, and the return after
\* the last one
get_photos ==
    /\ pc = "get_photos"
    /\ LET p == Photos(tweet_media)[asset_ix] IN
       \E probe \in PhotoProbes :
          IF probe = "ConnectionError"
          THEN /\ InlineCaught({Exc(probe, "get_photo_url")})
               /\ UNCHANGED <<group, bot_data, asset_ix>>
          ELSE LET g == Append(group, Item("photo", get_photo_url(p.url, probe)))
               IN
               /\ bot_data' = increase_context_counter(bot_data, "media_downloaded")
               /\ IF asset_ix = Len(Photos(tweet_media))
                  THEN InlineReturn(g) /\ UNCHANGED <<group, asset_ix>>
                  ELSE /\ group' = g
                       /\ asset_ix' = asset_ix + 1
                       /\ UNCHANGED <<pc, id_ix, results, yields, errlog, raised>>
    /\ UNCHANGED <<mode, tweet_ids, tweet_media, sent, fetched, probed,
                   start_stats, exVars, concVars>>

\* get_videos, lines 113-140: one video of the loop, and the return after
\* the last one.  In the except clause update.effective_message is None
\* (an inline query carries no message), so the reply_text of line 136 is
\* an AttributeError, which leaves get_videos.
get_videos ==
    /\ pc = "get_videos"
    /\ LET v == Videos(tweet_media)[asset_ix] IN
       \E probe \in VideoProbes :
          /\ probed' = Append(probed, [url |-> v.url, probe |-> probe])
          /\ IF probe.ok
             THEN LET g == Append(group,
                                  IF FitsTelegram(probe.size)
                                  THEN Item("video", v.url)
                                  ELSE VideoTooBig)
                  IN
                  /\ bot_data' = increase_context_counter(bot_data, "media_downloaded")
                  /\ IF asset_ix = Len(Videos(tweet_media))
                     THEN InlineReturn(g) /\ UNCHANGED <<group, asset_ix>>
                     ELSE /\ group' = g
                          /\ asset_ix' = asset_ix + 1
                          /\ UNCHANGED <<pc, id_ix, results, yields, errlog,
                                         raised>>
             ELSE /\ InlineCaught(
                        IF probe.exc \in CaughtByVideos
                        THEN {Exc(probe.exc, "caught:get_videos"),
                              Exc("AttributeError", "get_videos")}
                        ELSE {Exc(probe.exc, "get_videos")})
                  /\ UNCHANGED <<group, bot_data, asset_ix>>
    /\ UNCHANGED <<mode, tweet_ids, tweet_media, sent, fetched, start_stats,
                   exVars, concVars>>

\* inline_query, lines 334-341: after the loop
inline_answer ==
    /\ pc = "inline_loop"
    /\ id_ix > Len(tweet_ids.ids)
    /\ LET r == IF Len(results) = 0 THEN <<NothingFound>> ELSE results IN
       /\ results' = r
       /\ sent' = Append(sent, Answer(r))
    /\ bot_data' = increase_context_counter(bot_data, "messages_handled")
    /\ Finish
    /\ UNCHANGED <<mode, tweet_ids, id_ix, tweet_media, asset_ix, group,
                   raised, errlog, fetched, yields, probed, start_stats,
                   exVars, concVars>>

\* stats_command
stats_command ==
    /\ pc = "idle"
    /\ mode' = "stats"
    /\ bot_data' = IF ~bot_data.has_stats THEN init_stats(bot_data) ELSE bot_data
    /\ sent' = Append(sent, ReplyText("stats", NoUrl))
    /\ Finish
    /\ UNCHANGED <<tweet_ids, id_ix, tweet_media, asset_ix, group, results,
                   raised, errlog, fetched, yields, probed, start_stats,
                   exVars, concVars>>

\* reset_stats_command
reset_stats_command ==
    /\ pc = "idle"
    /\ mode' = "reset"
    /\ bot_data' = init_stats(bot_data)
    /\ sent' = Append(sent, ReplyText("reset", NoUrl))
    /\ Finish
    /\ UNCHANGED <<tweet_ids, id_ix, tweet_media, asset_ix, group, results,
                   raised, errlog, fetched, yields, probed, start_stats,
                   exVars, concVars>>

\* the handlers on any inbound text
grab_command == grab_command_on(Texts)
inline_query == inline_query_on(Texts)
inline_scrape_media == inline_scrape_media_upto(MaxMedia)

Next ==
    \/ grab_command
    \/ grab_scrape_media
    \/ grab_finish
    \/ command_send_photos
    \/ reply_media_group
    \/ command_send_gifs
    \/ command_send_videos
    \/ inline_query
    \/ inline_scrape_media
    \/ get_photos
    \/ get_videos
    \/ inline_answer
    \/ stats_command
    \/ reset_stats_command

Spec == Init /\ [][Next]_vars


---------------------------------------------------------------------------
(* SpecOne: the same handlers on an update whose text is a single link *)

SingleLinks == {t \in Texts : Len(t) <= 1}

grab_command_single == grab_command_on(SingleLinks)
inline_query_single == inline_query_on(SingleLinks)

NextOne ==
    \/ grab_command_single
    \/ grab_scrape_media
    \/ grab_finish
    \/ command_send_photos
    \/ reply_media_group
    \/ command_send_gifs
    \/ command_send_videos
    \/ inline_query_single
    \/ inline_scrape_media
    \/ get_photos
    \/ get_videos
    \/ inline_answer
    \/ stats_command
    \/ reset_stats_command

SpecOne == Init /\ [][NextOne]_vars

---------------------------------------------------------------------------
(* SpecInline: inline queries alone, on tweets of few media *)

inline_scrape_media_short == inline_scrape_media_upto(MaxInlineMedia)

NextInline ==
    \/ inline_query
    \/ inline_scrape_media_short
    \/ get_photos
    \/ get_videos
    \/ inline_answer

SpecInline == Init /\ [][NextInline]_vars

---------------------------------------------------------------------------
(* SpecConc: handler coroutines interleaved at their await points.        *)
(* A coroutine runs without interruption between two awaits; every        *)
(* requests call of the handlers is a blocking call, not an await.  Each  *)
(* action below is one such segment, reduced to what it does to bot_data. *)

Handlers == 1..NumHandlers

InitConc ==
    /\ hpc = [h \in Handlers |-> "idle"]
    /\ todo = [h \in Handlers |-> 0]
    /\ incs = Zeros
    /\ bot_data \in {[has_stats |-> FALSE, stats |-> Zeros],
                     [has_stats |-> TRUE, stats |-> Zeros]}
    /\ NoExtract /\ NoUpdate

Bump(name, n) == incs' = [incs EXCEPT ![name] = @ + n]

\* grab_command up to its first await (line 148): no counter is touched
conc_grab_start(h) ==
    /\ hpc[h] = "idle"
    /\ \E n \in 0..MaxAssets : todo' = [todo EXCEPT ![h] = n]
    /\ hpc' = [hpc EXCEPT ![h] = "grab"]
    /\ UNCHANGED <<bot_data, incs, exVars, updVars>>

\* one asset of command_send_gifs or command_send_videos: the increment
\* (line 186 or 193) and the run to the next await
conc_grab_asset(h) ==
    /\ hpc[h] = "grab"
    /\ todo[h] > 0
    /\ bot_data' = increase_context_counter(bot_data, "media_downloaded")
    /\ Bump("media_downloaded", 1)
    /\ todo' = [todo EXCEPT ![h] = @ - 1]
    /\ UNCHANGED <<hpc, exVars, updVars>>

\* grab_command after `await update.effective_message.delete()`
conc_grab_finish(h) ==
    /\ hpc[h] = "grab"
    /\ todo[h] = 0
    /\ bot_data' = increase_context_counter(bot_data, "commands_handled")
    /\ Bump("commands_handled", 1)
    /\ hpc' = [hpc EXCEPT ![h] = "done"]
    /\ UNCHANGED <<todo, exVars, updVars>>

\* inline_query: it has no await before line 341, so the increments of
\* get_photos / get_gifs / get_videos and of line 340 are one segment
conc_inline_query(h) ==
    /\ hpc[h] = "idle"
    /\ \E n \in 0..MaxAssets :
          /\ bot_data' = increase_context_counter(
                             increase_n(bot_data, "media_downloaded", n),
                             "messages_handled")
          /\ incs' = [incs EXCEPT !["media_downloaded"] = @ + n,
                                  !["messages_handled"] = @ + 1]
    /\ hpc' = [hpc EXCEPT ![h] = "done"]
    /\ UNCHANGED <<todo, exVars, updVars>>

\* reset_stats_command up to its await
conc_reset_stats(h) ==
    /\ hpc[h] = "idle"
    /\ bot_data' = init_stats(bot_data)
    /\ incs' = Zeros
    /\ hpc' = [hpc EXCEPT ![h] = "done"]
    /\ UNCHANGED <<todo, exVars, updVars>>

\* stats_command up to its await: the record is created when absent
conc_stats_command(h) ==
    /\ hpc[h] = "idle"
    /\ bot_data' = IF ~bot_data.has_stats THEN init_stats(bot_data) ELSE bot_data
    /\ hpc' = [hpc EXCEPT ![h] = "done"]
    /\ UNCHANGED <<todo, incs, exVars, updVars>>

NextConc ==
    \E h \in Handlers :
        \/ conc_grab_start(h)
        \/ conc_grab_asset(h)
        \/ conc_grab_finish(h)
        \/ conc_inline_query(h)
        \/ conc_reset_stats(h)
        \/ conc_stats_command(h)

SpecConc == InitConc /\ [][NextConc]_vars


---------------------------------------------------------------------------
(* Properties *)

Delta(name) == Counters(bot_data)[name] - start_stats[name]

Indexes(s) == 1..Len(s)

\* the calls of the transport that carry asset u as a link in a text
LinkSent(what, u) == InSeq(ReplyText(what, u), sent)

\* the update went through grab_command / inline_query to its end
GrabDone == pc = "done" /\ mode = "grab"
InlineDone == pc = "done" /\ mode = "inline"

(* ---- C9 ---- *)

\* the text extract_tweet_ids searches: the original text followed by the
\* targets of the redirects that resolved
C9_Searched ==
    LET r == SelectSeq(redirects, LAMBDA o : o.ok)
    IN  text \o [q \in 1..Len(r) |-> r[q].url]

C9_Matches == {q \in Indexes(C9_Searched) : MatchesIdPattern(C9_Searched[q])}

C9_First(n) ==
    CHOOSE q \in C9_Matches :
        /\ C9_Searched[q].id = n
        /\ \A q2 \in C9_Matches : C9_Searched[q2].id = n => q <= q2

\* C9: extract_tweet_ids returns the identifiers matched in the text and in
\* the targets of its resolved redirects, each once, in order of first
\* appearance (K distinct identifiers give length K), and None when nothing
\* matches; a redirect that fails adds nothing and does not end the search.
C9_ExtractDedupInOrder ==
    ex_pc = "returned" =>
        IF C9_Matches = {}
        THEN extracted = None
        ELSE /\ ~extracted.none
             /\ Len(extracted.ids) = Cardinality({C9_Searched[q].id : q \in C9_Matches})
             /\ {extracted.ids[q] : q \in Indexes(extracted.ids)}
                    = {C9_Searched[q].id : q \in C9_Matches}
             /\ \A a, b \in Indexes(extracted.ids) :
                    a < b => C9_First(extracted.ids[a]) < C9_First(extracted.ids[b])

\* a failed redirect is followed by one that resolves to a tweet, and the
\* identifiers come back in order of appearance, not of value
C9_Witness ==
    /\ ex_pc = "returned"
    /\ extracted = Some(<<2, 1>>)
    /\ \E a, b \in Indexes(redirects) :
          a < b /\ ~redirects[a].ok /\ redirects[b].ok
              /\ MatchesIdPattern(redirects[b].url)

(* ---- C10 ---- *)

\* C10: whatever the interleaving of the handlers, every counter equals the
\* number of increase_context_counter calls made on it since the last
\* reset (or since the record was first created).
C10_NoLostUpdate ==
    \A name \in CounterNames : Counters(bot_data)[name] = incs[name]

\* two grab commands in flight at once, both of which have counted assets
C10_Witness ==
    /\ \A h \in Handlers : hpc[h] = "grab"
    /\ incs.media_downloaded > MaxAssets

(* ---- C3 ---- *)

\* the probes of the videos of the bucket being built, one per group entry
C3_ProbeOf(q) == probed[Len(probed) - Len(group) + q]

VideoSendsOf(u) ==
    {q \in Indexes(sent) : sent[q].call = "reply_video" /\ sent[q].items[1].url = u}

C1_Yielding == {q \in Indexes(yields) : yields[q].res # <<>>}
C1_FirstYield == CHOOSE q \in C1_Yielding : \A r \in C1_Yielding : q <= r

\* C1 (as claimed): inline_query stops at the first identifier that yields
\* a result: the answer is that identifier's results, which no later
\* identifier replaces, and the media counter is what it was when those
\* results were returned.
C1_InlineStopsAtFirstYield ==
    (InlineDone /\ raised = "none" /\ C1_Yielding # {}) =>
        /\ sent = <<Answer(yields[C1_FirstYield].res)>>
        /\ Counters(bot_data).media_downloaded = yields[C1_FirstYield].count

\* the tweets for which get_media_for_inline returned
C1_Returned == {q \in Indexes(yields) : ~yields[q].raised}
C1_LastReturned == CHOOSE q \in C1_Returned : \A r \in C1_Returned : r <= q

RECURSIVE C1_Assets(_)
C1_Assets(ys) ==
    IF ys = <<>> THEN 0
    ELSE (IF Head(ys).raised THEN 0 ELSE Len(Head(ys).res)) + C1_Assets(Tail(ys))

\* C1 (as amended): inline_query fetches every identifier, in extraction
\* order; it does not stop at the first one that yields assets.  The answer
\* is what get_media_for_inline returned for the last identifier for which
\* it returned (the placeholder when it never did), so a later identifier
\* replaces the results of an earlier one, and the assets of every
\* identifier add to the media counter.
C1_InlineLastYieldWins ==
    (InlineDone /\ ~tweet_ids.none) =>
        /\ fetched = tweet_ids.ids
        /\ sent = <<Answer(IF C1_Returned = {} \/ yields[C1_LastReturned].res = <<>>
                           THEN <<NothingFound>>
                           ELSE yields[C1_LastReturned].res)>>
        /\ Delta("media_downloaded") >= C1_Assets(yields)

\* two identifiers both yielded; the answer holds the second one's results
C1_Witness ==
    /\ InlineDone
    /\ Len(yields) = 2
    /\ ~yields[1].raised /\ ~yields[2].raised
    /\ yields[1].res # <<>> /\ yields[2].res # <<>>
    /\ sent = <<Answer(yields[2].res)>>
    /\ Delta("media_downloaded") = 2

(* ---- C2 ---- *)

\* C2: in grab_command no fetch error and no transport error ends the
\* batch: every identifier is fetched, the handler reaches its end, and
\* every asset of a rejected send is given to the user as a direct link.
C2_GrabNeverAborts ==
    (GrabDone /\ ~tweet_ids.none) =>
        /\ fetched = tweet_ids.ids
        /\ sent[Len(sent)] = DeleteMessage
        /\ \A q \in Indexes(sent) :
              ~sent[q].ok =>
                  \A r \in Indexes(sent[q].items) :
                      LinkSent("error_link", sent[q].items[r].url)

(* ---- C4 ---- *)

\* the answer of the inline query carries u
Answered(u) ==
    \E a \in Indexes(sent) :
        /\ sent[a].call = "answer"
        /\ \E r \in Indexes(sent[a].items) : sent[a].items[r].url = u

\* C4: when the size probe of a video fails, in either mode, nothing is
\* raised out of the video resolver, and the user gets the video's URL.
C4_ProbeFailureGivesLink ==
    \A q \in Indexes(probed) :
        ~probed[q].probe.ok =>
            /\ raised = "none"
            /\ \A e \in errlog : e.fn \notin {"get_videos", "command_send_videos"}
            /\ pc = "done" =>
                  \/ LinkSent("error_link", probed[q].url)
                  \/ Answered(probed[q].url)

(* ---- C5 ---- *)

\* C5: get_photo_url never raises, and in command_send_photos the photos of
\* the tweet are all sent in its group whatever their probes did.
C5_PhotoUpgradeNeverFails ==
    /\ \A e \in errlog : e.fn # "get_photo_url"
    /\ (GrabDone /\ Photos(tweet_media) # <<>>) =>
          \E q \in Indexes(sent) :
              /\ sent[q].call = "reply_media_group"
              /\ Len(sent[q].items) = Len(Photos(tweet_media))
              /\ sent[q].items[1].url.tweet = tweet_media[1].url.tweet

(* ---- C6 ---- *)

\* the assets dispatched: those whose URL a call the transport accepted
\* carries, and the 'Video too big' articles, which stand for one video each
C6_SentAssets ==
    UNION {{<<sent[q].items[r].url.tweet, sent[q].items[r].url.n>> :
                r \in {x \in Indexes(sent[q].items) : sent[q].items[x].url # NoUrl}} :
           q \in {x \in Indexes(sent) : sent[x].ok}}
C6_SentArticles ==
    UNION {{<<q, r>> : r \in {x \in Indexes(sent[q].items) :
                                  sent[q].items[x] = VideoTooBig}} :
           q \in Indexes(sent)}

\* C6: when the handler has ended, media_downloaded has grown by exactly
\* the number of assets dispatched: no increment without its dispatch.
C6_CounterCountsDispatched ==
    (GrabDone \/ InlineDone) =>
        Delta("media_downloaded")
            = Cardinality(C6_SentAssets) + Cardinality(C6_SentArticles)

(* ---- C7 ---- *)

\* C7: an invocation that found identifiers ends without an exception and
\* with its own counter one higher, also when scrape_media failed; in
\* grab_command the user is then told of the failure.
C7_InvocationCountedOnce ==
    /\ (GrabDone /\ ~tweet_ids.none) =>
          /\ raised = "none"
          /\ Delta("commands_handled") = 1
          /\ (\E e \in errlog : e.fn = "scrape_media")
                => LinkSent("invalid", NoUrl)
    /\ (InlineDone /\ ~tweet_ids.none) =>
          /\ raised = "none"
          /\ Delta("messages_handled") = 1

(* ---- C8 ---- *)

\* C8: when extract_tweet_ids returns None the handler raises nothing,
\* fetches nothing and tells the user there is nothing to resolve.
C8_NoneIsHandled ==
    (pc = "done" /\ mode \in {"grab", "inline"} /\ tweet_ids.none) =>
        /\ raised = "none"
        /\ fetched = <<>>
        /\ mode = "grab" => LinkSent("invalid", NoUrl)
        /\ mode = "inline" => sent = <<Answer(<<NothingFound>>)>>

=============================================================================
